---- MODULE Spec2Model ----
(***************************************************************************)
(* Model of the image upload pipeline of FileUploaderButton                *)
(* (src/components/utility-components/file-uploader.tsx).                  *)
(*                                                                         *)
(* The component state (progress, loading, failure modal, previews) is     *)
(* shared by every run of uploadImages.  A run is one call of              *)
(* uploadImages started by handleChange or handleDrop.  JavaScript is      *)
(* single threaded: one action of the model is one task of the event loop  *)
(* (an event handler or the settlement of one asynchronous operation)      *)
(* together with the promise continuations it triggers.                    *)
(***************************************************************************)
EXTENDS Integers, Sequences, FiniteSets

VARIABLES
    progress,          \* useState<number | null>: ProgressNull or a percentage
    loading,           \* useState(false)
    showFailureModal,  \* useState(false)
    failureText,       \* useState("")
    previews,          \* useState([]): the preview list shown
    isLoggedIn,        \* useContext(SignerContext).isLoggedIn
    runs,              \* the calls of uploadImages: their locals and pending operations
    raw,               \* resolver check: the raw response under resolution
    resolved           \* resolver check: what the resolver returned for raw

vars == <<progress, loading, showFailureModal, failureText, previews, isLoggedIn, runs, raw, resolved>>

(***************************************************************************)
(* Bounds of the model.                                                    *)
(***************************************************************************)
\* the most files in the pipeline at once: the files of the runs that still
\* have an operation or a reset timer pending, and the batch being started
MaxFiles == 2
\* the largest number of entries of a raw response given to the resolver
MaxTags == 2

(***************************************************************************)
(* Program constants.                                                      *)
(***************************************************************************)
MAX_FILE_SIZE == 5 * 1024 * 1024

Mime(top, sub) == [top |-> top, sub |-> sub]

ALLOWED_TYPES == <<Mime("image", "jpeg"), Mime("image", "png"), Mime("image", "webp")>>

\* progress === null
ProgressNull == -1

TypeMessage == "Only JPEG, PNG, or WebP images are supported!"
SizeMessage == "Each image must be smaller than 5 MB"
GenericMessage == "Failed to upload image! Change your Blossom media server in settings."
NoUrlMessage == "Image upload failed to yield a URL! Change your Blossom media server in settings or try again."
LoadMessage == "Failed to load image"
ContextMessage == "Failed to get canvas context"
BlobMessage == "Failed to create blob"

(***************************************************************************)
(* JavaScript values that reach the resolver.                              *)
(***************************************************************************)
JsNull == [k |-> "null"]
JsUndefined == [k |-> "undefined"]
JsStr(s) == [k |-> "str", s |-> s]
JsArr(a) == [k |-> "arr", a |-> a]

\* Array.isArray(v)
IsArray(v) == v.k = "arr"

\* the truthiness of v in `response && ...`
Truthy(v) == \/ v.k = "arr"
             \/ v.k = "str" /\ v.s # ""

\* a thrown or rejected value: an Error with a message, or anything else
Err(m) == [isError |-> TRUE, message |-> m]
NotAnError == [isError |-> FALSE, message |-> ""]

(***************************************************************************)
(* Validation (uploadImages, lines 103-121).                               *)
(***************************************************************************)
\* imgFile.type.startsWith("image/")
StartsWithImage(type) == type.top = "image"

\* the mutant of IsAllowedType: any image type is let through
IsImageType(type) == type.top = "image"

\* ALLOWED_TYPES.includes(imgFile.type)
IsAllowedType(type) == \E k \in 1..Len(ALLOWED_TYPES) : ALLOWED_TYPES[k] = type

\* imageFiles.some(f => !f.type.startsWith("image/") || !ALLOWED_TYPES.includes(f.type))
TypeViolation(files) ==
    \E i \in 1..Len(files) :
        \/ ~StartsWithImage(files[i].type)
        \/ ~IsAllowedType(files[i].type)

\* the mutant of SizeViolation: a file of exactly the maximum size is refused
SizeViolationInclusive(files) == \E i \in 1..Len(files) : files[i].size >= MAX_FILE_SIZE

\* imageFiles.some(f => f.size > MAX_FILE_SIZE)
SizeViolation(files) == \E i \in 1..Len(files) : files[i].size > MAX_FILE_SIZE

(***************************************************************************)
(* Progress arithmetic (lines 138 and 155).  Math.round rounds a           *)
(* non-negative quotient num/den half up.  The position i of a file is     *)
(* 1-based here, the code's idx + 1.                                       *)
(***************************************************************************)
Round(num, den) == (2 * num + den) \div (2 * den)

\* Math.round(((idx + 1) / imageFiles.length) * 30)
SanitizeProgress(i, n) == Round(i * 30, n)

\* 30 + Math.round(((idx + 1) / strippedImageFiles.length) * 70)
UploadProgress(i, n) == 30 + Round(i * 70, n)

(***************************************************************************)
(* Response resolver (lines 161-172).                                      *)
(***************************************************************************)
\* JavaScript null as the result of the map callback
Absent == "<null>"

\* what reading a property of null or undefined throws
TypeError == "<TypeError>"
TypeErrorMessage == "Cannot read properties of null (reading '0')"

\* tag[0]: the first element of an array (undefined when it is empty), the
\* first character of a string, a TypeError for null and undefined
Index0(tag) ==
    IF tag.k \in {"null", "undefined"} THEN TypeError
    ELSE IF tag.k = "str" THEN "<character>"
    ELSE IF Len(tag.a) >= 1 THEN tag.a[1]
    ELSE "<undefined>"

\* the mutant of TagTest: tag[0] is read without the Array.isArray guard
TagTestUnguarded(tag) ==
    IF Index0(tag) = TypeError THEN TypeError
    ELSE IF Index0(tag) = "url" THEN "true"
    ELSE "false"

\* the find callback, Array.isArray(tag) && tag[0] === "url": what it
\* evaluates to, or the TypeError it throws
TagTest(tag) ==
    IF ~IsArray(tag) THEN "false"
    ELSE IF Index0(tag) = TypeError THEN TypeError
    ELSE IF Index0(tag) = "url" THEN "true"
    ELSE "false"

\* Array.isArray(tag) && tag[0] === "url"
IsUrlTag(tag) == TagTest(tag) = "true"

\* response.find(...) throws: the callback throws on an entry it reaches
FindThrows(entries) ==
    \E i \in 1..Len(entries) :
        /\ TagTest(entries[i]) = TypeError
        /\ \A j \in 1..(i - 1) : TagTest(entries[j]) # "true"

\* response.find(...): the position of the first url tag, 0 when there is none
FindUrlTag(entries) ==
    IF \E i \in 1..Len(entries) : IsUrlTag(entries[i])
    THEN CHOOSE i \in 1..Len(entries) :
            /\ IsUrlTag(entries[i])
            /\ \A j \in 1..(i - 1) : ~IsUrlTag(entries[j])
    ELSE 0

\* the map callback: urlTag && urlTag.length > 1 ? urlTag[1] : null
UrlOfResponse(response) ==
    LET at == FindUrlTag(response.a) IN
    IF at # 0 /\ Len(response.a[at].a) > 1 THEN response.a[at].a[2] ELSE Absent

\* what one raw response contributes: nothing when the first filter drops it
\* (response && Array.isArray(response)), else what the map callback returns
Resolve(response) ==
    IF Truthy(response) /\ IsArray(response) THEN UrlOfResponse(response) ELSE Absent

\* responses.filter(...).map(...).filter(url => url !== null)
RECURSIVE ImageUrls(_)
ImageUrls(responses) ==
    IF responses = <<>> THEN <<>>
    ELSE LET url == Resolve(Head(responses))
             rest == ImageUrls(Tail(responses))
         IN IF url = Absent THEN rest ELSE <<url>> \o rest

\* lines 161-172 throw: find throws on a response the first filter kept
ResolverThrows(responses) ==
    \E k \in 1..Len(responses) :
        /\ Truthy(responses[k])
        /\ IsArray(responses[k])
        /\ FindThrows(responses[k].a)

\* the catch block's text: e instanceof Error ? e.message : the fallback
CatchText(e) == IF e.isError THEN e.message ELSE GenericMessage

(***************************************************************************)
(* Inputs: the files a user can select or drop, what the upload            *)
(* collaborator (blossomUploadImages) can return, and how it can fail.     *)
(***************************************************************************)
File(type, size) == [type |-> type, size |-> size]

\* an accepted file of exactly the maximum size, a small file of an image type
\* that is not allowed, an oversize file of an allowed type, and an oversize
\* file that is no image
FileKinds ==
    { File(Mime("image", "webp"), MAX_FILE_SIZE),
      File(Mime("image", "gif"), 1024),
      File(Mime("image", "png"), MAX_FILE_SIZE + 1),
      File(Mime("text", "plain"), MAX_FILE_SIZE + 1) }

\* the non-empty batches of at most MaxFiles files
Batches == UNION { [1..n -> FileKinds] : n \in 1..MaxFiles }

\* the address a server gives the i-th file of a batch
UrlFor(i) ==
    <<"https://x/1.png", "https://x/2.png", "https://x/3.png", "https://x/4.png">>[i]

\* what the upload of the i-th file can resolve with: no array, tags with a
\* url tag, and an array of an entry that is no tag, a url tag with no value
\* and a url tag
ServerResponses(i) ==
    { JsNull,
      JsArr(<<JsArr(<<"url", UrlFor(i)>>), JsArr(<<"size", "100">>)>>),
      JsArr(<<JsNull, JsArr(<<"url">>), JsArr(<<"url", UrlFor(i)>>)>>) }

Rejections == {Err("upload failed"), NotAnError}

(***************************************************************************)
(* A run: the locals of one call of uploadImages and the operations it     *)
(* started.  lastProgress, notices, text, stage and outcome record what    *)
(* the run itself did to the shared component state.                       *)
(***************************************************************************)
Slots == 1..MaxFiles

NoRun ==
    [ pc           |-> "idle",   \* idle, preview, sanitize, upload, done
      files        |-> <<>>,     \* imageFiles
      preview      |-> <<>>,     \* getBase64 per file: pending, loaded, error
      strip        |-> <<>>,     \* stripImageMetadata per file: none, loading, encoding, resolved, rejected
      revoked      |-> <<>>,     \* URL.revokeObjectURL calls per file
      upload       |-> <<>>,     \* blossomUploadImages per file: none, pending, resolved, rejected
      responses    |-> <<>>,     \* the tags each resolved upload returned
      result       |-> <<>>,     \* what uploadImages returned
      outcome      |-> "none",   \* none, urls, empty, caught
      stage        |-> "none",   \* where the run ended: validate, preview, sanitize, upload, finalize
      notices      |-> 0,        \* setShowFailureModal(true) calls of the run
      text         |-> "",       \* the failure text the run set
      lastProgress |-> ProgressNull,  \* the last value the run gave setProgress
      timer        |-> FALSE ]   \* the 500 ms reset timer is pending

Const(n, v) == [i \in 1..n |-> v]

N(run) == Len(run.files)

PendingOps(run) ==
    \/ \E i \in 1..Len(run.preview) : run.preview[i] = "pending"
    \/ \E i \in 1..Len(run.strip) : run.strip[i] \in {"loading", "encoding"}
    \/ \E i \in 1..Len(run.upload) : run.upload[i] = "pending"

\* nothing of the run can act any more: its slot can hold the next run
Settled(run) ==
    \/ run.pc = "idle"
    \/ run.pc = "done" /\ ~run.timer /\ ~PendingOps(run)

\* Promise.all over the previews has resolved (lines 126-131)
AllPreviewed(run) == \A j \in 1..N(run) : run.preview[j] = "loaded"

\* the mutant of AllStripped: the stage is left when the first file is stripped
AnyStripped(run) == \E j \in 1..N(run) : run.strip[j] = "resolved"

\* Promise.all over the stripped files has resolved (lines 135-141)
AllStripped(run) == \A j \in 1..N(run) : run.strip[j] = "resolved"

\* Promise.all over the uploads has resolved (lines 146-158)
AllUploaded(run) == \A j \in 1..N(run) : run.upload[j] = "resolved"

FreeSlots == {r \in Slots : Settled(runs[r])}

RECURSIVE FilesIn(_)
\* the number of files of the runs in slots 1..r that are not settled
FilesIn(r) ==
    IF r = 0 THEN 0
    ELSE FilesIn(r - 1) + (IF Settled(runs[r]) THEN 0 ELSE N(runs[r]))

\* a settled run is forgotten when the next run starts
Forgotten == [r \in Slots |-> IF Settled(runs[r]) THEN NoRun ELSE runs[r]]

\* the slot of the next run: the first free one
NextSlot == CHOOSE r \in FreeSlots : \A q \in FreeSlots : r <= q

(***************************************************************************)
(* The ends of a run.                                                      *)
(***************************************************************************)
\* the mutant of CaughtIn: the catch block throws the error again, the
\* handler's await rejects and its setLoading(false) is not reached
CaughtRethrown(rs, r, run, e, stage) ==
    /\ progress' = ProgressNull
    /\ failureText' = CatchText(e)
    /\ showFailureModal' = TRUE
    /\ loading' = loading
    /\ runs' = [rs EXCEPT ![r] =
                  [run EXCEPT !.pc = "done", !.result = <<>>, !.outcome = "caught",
                              !.stage = stage, !.notices = @ + 1,
                              !.text = CatchText(e), !.lastProgress = ProgressNull]]

\* the catch block (lines 187-196); the awaiting handler then gets [] and
\* calls setLoading(false) (lines 209-213, 246-249)
CaughtIn(rs, r, run, e, stage) ==
    /\ progress' = ProgressNull
    /\ failureText' = CatchText(e)
    /\ showFailureModal' = TRUE
    /\ loading' = FALSE
    /\ runs' = [rs EXCEPT ![r] =
                  [run EXCEPT !.pc = "done", !.result = <<>>, !.outcome = "caught",
                              !.stage = stage, !.notices = @ + 1,
                              !.text = CatchText(e), !.lastProgress = ProgressNull]]

Caught(r, run, e, stage) == CaughtIn(runs, r, run, e, stage)

\* the mutant of Finalize: an empty result is returned without a notice
FinalizeQuiet(r, run) ==
    LET imageUrls == ImageUrls(run.responses) IN
    /\ loading' = FALSE
    /\ runs' = [runs EXCEPT ![r] =
                  [run EXCEPT !.pc = "done", !.timer = TRUE, !.stage = "finalize",
                              !.result = imageUrls,
                              !.outcome = IF Len(imageUrls) > 0 THEN "urls" ELSE "empty"]]
    /\ UNCHANGED <<failureText, showFailureModal>>

\* lines 161-186: resolve the responses, schedule the reset, return the URLs
\* or report that there are none; the handler then calls setLoading(false)
Finalize(r, run) ==
    LET imageUrls == ImageUrls(run.responses) IN
    /\ loading' = FALSE
    /\ IF Len(imageUrls) > 0
       THEN /\ runs' = [runs EXCEPT ![r] =
                          [run EXCEPT !.pc = "done", !.timer = TRUE, !.stage = "finalize",
                                      !.result = imageUrls, !.outcome = "urls"]]
            /\ UNCHANGED <<failureText, showFailureModal>>
       ELSE /\ runs' = [runs EXCEPT ![r] =
                          [run EXCEPT !.pc = "done", !.timer = TRUE, !.stage = "finalize",
                                      !.result = <<>>, !.outcome = "empty",
                                      !.notices = @ + 1, !.text = NoUrlMessage]]
            /\ failureText' = NoUrlMessage
            /\ showFailureModal' = TRUE

\* the mutant of StartUploads: the uploads start whoever the caller is
StartUploadsAlways(r, run) ==
    /\ runs' = [runs EXCEPT ![r] =
                  [run EXCEPT !.pc = "upload",
                              !.upload = Const(N(run), "pending"),
                              !.responses = Const(N(run), JsUndefined)]]
    /\ UNCHANGED <<loading, failureText, showFailureModal>>

\* lines 143-159, entered when every stripImageMetadata has resolved
StartUploads(r, run) ==
    IF isLoggedIn
    THEN /\ runs' = [runs EXCEPT ![r] =
                       [run EXCEPT !.pc = "upload",
                                   !.upload = Const(N(run), "pending"),
                                   !.responses = Const(N(run), JsUndefined)]]
         /\ UNCHANGED <<loading, failureText, showFailureModal>>
    ELSE Finalize(r, run)

\* the operation settled and no await of the run is resumed by it
Continue(r, run) ==
    /\ runs' = [runs EXCEPT ![r] = run]
    /\ UNCHANGED <<loading, failureText, showFailureModal>>

(***************************************************************************)
(* uploadImages up to its first await (lines 99-131).                      *)
(***************************************************************************)
UploadImages(r, files) ==
    LET run == [NoRun EXCEPT !.files = files,
                             !.preview = Const(Len(files), "none"),
                             !.strip = Const(Len(files), "none"),
                             !.revoked = Const(Len(files), 0),
                             !.upload = Const(Len(files), "none")]
    IN  IF TypeViolation(files)
        THEN CaughtIn(Forgotten, r, run, Err(TypeMessage), "validate")
        ELSE IF SizeViolation(files)
        THEN CaughtIn(Forgotten, r, run, Err(SizeMessage), "validate")
        ELSE /\ progress' = 0
             /\ loading' = TRUE
             /\ runs' = [Forgotten EXCEPT ![r] =
                           [run EXCEPT !.pc = "preview", !.lastProgress = 0,
                                       !.preview = Const(Len(files), "pending")]]
             /\ UNCHANGED <<failureText, showFailureModal>>

\* handleClick opens the file dialog unless disabled or loading (lines 199-202);
\* handleChange (lines 204-217) runs on the files chosen in it
HandleChange(files) ==
    /\ ~loading
    /\ FilesIn(MaxFiles) + Len(files) <= MaxFiles
    /\ UploadImages(NextSlot, files)
    /\ UNCHANGED <<previews, isLoggedIn, raw, resolved>>

\* handleDrop (lines 238-251)
HandleDrop(files) ==
    /\ Len(files) > 0
    /\ FilesIn(MaxFiles) + Len(files) <= MaxFiles
    /\ UploadImages(NextSlot, files)
    /\ UNCHANGED <<previews, isLoggedIn, raw, resolved>>

(***************************************************************************)
(* Previews (lines 42-48, 125-141).                                        *)
(***************************************************************************)
\* reader.onload of file i; the last one resumes uploadImages, which sets
\* the previews and starts stripImageMetadata on every file
PreviewLoaded(r, i) ==
    /\ i \in 1..Len(runs[r].preview)
    /\ runs[r].preview[i] = "pending"
    /\ LET run == [runs[r] EXCEPT !.preview[i] = "loaded"] IN
       IF run.pc = "preview" /\ AllPreviewed(run)
       THEN /\ previews' = run.files
            /\ runs' = [runs EXCEPT ![r] =
                          [run EXCEPT !.pc = "sanitize",
                                      !.strip = Const(N(run), "loading")]]
            /\ UNCHANGED <<progress, loading, failureText, showFailureModal>>
       ELSE /\ Continue(r, run)
            /\ UNCHANGED <<progress, previews>>
    /\ UNCHANGED <<isLoggedIn, raw, resolved>>

\* reader.onerror of file i rejects with the event, which is no Error
PreviewFailed(r, i) ==
    /\ i \in 1..Len(runs[r].preview)
    /\ runs[r].preview[i] = "pending"
    /\ LET run == [runs[r] EXCEPT !.preview[i] = "error"] IN
       IF run.pc = "preview"
       THEN Caught(r, run, NotAnError, "preview")
       ELSE Continue(r, run) /\ UNCHANGED progress
    /\ UNCHANGED <<previews, isLoggedIn, raw, resolved>>

(***************************************************************************)
(* stripImageMetadata (lines 58-96) and its await (lines 135-141).         *)
(***************************************************************************)
\* the mutant of StripRejected: the rejecting paths do not revoke the object URL
StripRejectedLeaking(r, i, message) ==
    LET run == [runs[r] EXCEPT !.strip[i] = "rejected"] IN
    IF run.pc = "sanitize"
    THEN Caught(r, run, Err(message), "sanitize")
    ELSE Continue(r, run) /\ UNCHANGED progress

\* a rejection of stripImageMetadata for file i: the object URL is revoked,
\* and the first rejection rejects the Promise.all uploadImages awaits
StripRejected(r, i, message) ==
    LET run == [runs[r] EXCEPT !.strip[i] = "rejected", !.revoked[i] = @ + 1] IN
    IF run.pc = "sanitize"
    THEN Caught(r, run, Err(message), "sanitize")
    ELSE Continue(r, run) /\ UNCHANGED progress

\* img.onerror (lines 89-92)
ImgError(r, i) ==
    /\ i \in 1..Len(runs[r].strip)
    /\ runs[r].strip[i] = "loading"
    /\ StripRejected(r, i, LoadMessage)
    /\ UNCHANGED <<previews, isLoggedIn, raw, resolved>>

\* img.onload with no 2d context (lines 63-72)
ImgLoadNoContext(r, i) ==
    /\ i \in 1..Len(runs[r].strip)
    /\ runs[r].strip[i] = "loading"
    /\ StripRejected(r, i, ContextMessage)
    /\ UNCHANGED <<previews, isLoggedIn, raw, resolved>>

\* img.onload: the image is drawn and canvas.toBlob is called (lines 63-74)
ImgLoad(r, i) ==
    /\ i \in 1..Len(runs[r].strip)
    /\ runs[r].strip[i] = "loading"
    /\ Continue(r, [runs[r] EXCEPT !.strip[i] = "encoding"])
    /\ UNCHANGED <<progress, previews, isLoggedIn, raw, resolved>>

\* the toBlob callback with no blob (lines 75-79)
BlobMissing(r, i) ==
    /\ i \in 1..Len(runs[r].strip)
    /\ runs[r].strip[i] = "encoding"
    /\ StripRejected(r, i, BlobMessage)
    /\ UNCHANGED <<previews, isLoggedIn, raw, resolved>>

\* the toBlob callback with a blob (lines 80-85): the stripped file resolves,
\* the map callback sets the progress (line 138), and the last file to
\* resolve resumes uploadImages
BlobCreated(r, i) ==
    /\ i \in 1..Len(runs[r].strip)
    /\ runs[r].strip[i] = "encoding"
    /\ LET run == [runs[r] EXCEPT !.strip[i] = "resolved", !.revoked[i] = @ + 1,
                                  !.lastProgress = SanitizeProgress(i, N(runs[r]))]
       IN  /\ progress' = SanitizeProgress(i, N(run))
           /\ IF run.pc = "sanitize" /\ AllStripped(run)
              THEN StartUploads(r, run)
              ELSE Continue(r, run)
    /\ UNCHANGED <<previews, isLoggedIn, raw, resolved>>

(***************************************************************************)
(* blossomUploadImages and its await (lines 146-158).                      *)
(***************************************************************************)
\* the upload of file i resolves with tags: the map callback sets the
\* progress (line 155), and the last upload to resolve resumes uploadImages
UploadResolved(r, i, tags) ==
    /\ i \in 1..Len(runs[r].upload)
    /\ runs[r].upload[i] = "pending"
    /\ LET run == [runs[r] EXCEPT !.upload[i] = "resolved", !.responses[i] = tags,
                                  !.lastProgress = UploadProgress(i, N(runs[r]))]
       IN  IF run.pc = "upload" /\ AllUploaded(run)
           THEN IF ResolverThrows(run.responses)
                THEN Caught(r, run, Err(TypeErrorMessage), "finalize")
                ELSE progress' = UploadProgress(i, N(run)) /\ Finalize(r, run)
           ELSE progress' = UploadProgress(i, N(run)) /\ Continue(r, run)
    /\ UNCHANGED <<previews, isLoggedIn, raw, resolved>>

\* the upload of file i rejects with e
UploadRejected(r, i, e) ==
    /\ i \in 1..Len(runs[r].upload)
    /\ runs[r].upload[i] = "pending"
    /\ LET run == [runs[r] EXCEPT !.upload[i] = "rejected"] IN
       IF run.pc = "upload"
       THEN Caught(r, run, e, "upload")
       ELSE Continue(r, run) /\ UNCHANGED progress
    /\ UNCHANGED <<previews, isLoggedIn, raw, resolved>>

(***************************************************************************)
(* The reset timer (lines 174-176) and the failure modal (lines 445-452).  *)
(***************************************************************************)
ResetTimer(r) ==
    /\ runs[r].timer
    /\ progress' = ProgressNull
    /\ runs' = [runs EXCEPT ![r].timer = FALSE, ![r].lastProgress = ProgressNull]
    /\ UNCHANGED <<loading, failureText, showFailureModal, previews, isLoggedIn, raw, resolved>>

\* FailureModal onClose
CloseFailureModal ==
    /\ showFailureModal
    /\ showFailureModal' = FALSE
    /\ failureText' = ""
    /\ UNCHANGED <<progress, loading, previews, isLoggedIn, runs, raw, resolved>>

(***************************************************************************)
(* The component.                                                          *)
(***************************************************************************)
Init ==
    /\ progress = ProgressNull
    /\ loading = FALSE
    /\ showFailureModal = FALSE
    /\ failureText = ""
    /\ previews = <<>>
    /\ isLoggedIn \in BOOLEAN
    /\ runs = [r \in Slots |-> NoRun]
    /\ raw = JsUndefined
    /\ resolved = Absent

Next ==
    \/ \E files \in Batches : HandleChange(files)
    \/ \E files \in Batches : HandleDrop(files)
    \/ \E r \in Slots, i \in 1..MaxFiles : PreviewLoaded(r, i)
    \/ \E r \in Slots, i \in 1..MaxFiles : PreviewFailed(r, i)
    \/ \E r \in Slots, i \in 1..MaxFiles : ImgError(r, i)
    \/ \E r \in Slots, i \in 1..MaxFiles : ImgLoadNoContext(r, i)
    \/ \E r \in Slots, i \in 1..MaxFiles : ImgLoad(r, i)
    \/ \E r \in Slots, i \in 1..MaxFiles : BlobMissing(r, i)
    \/ \E r \in Slots, i \in 1..MaxFiles : BlobCreated(r, i)
    \/ \E r \in Slots, i \in 1..MaxFiles :
          \E tags \in ServerResponses(i) : UploadResolved(r, i, tags)
    \/ \E r \in Slots, i \in 1..MaxFiles, e \in Rejections : UploadRejected(r, i, e)
    \/ \E r \in Slots : ResetTimer(r)
    \/ CloseFailureModal

Spec == Init /\ [][Next]_vars

(***************************************************************************)
(* The component when every operation it starts settles: the FileReader    *)
(* fires onload or onerror, the image onload or onerror, toBlob calls its  *)
(* callback, the upload promise settles, and the 500 ms timer fires.       *)
(* Nothing makes the user choose or drop files.                            *)
(***************************************************************************)
\* an event of run r is delivered: one of its operations moves on or
\* settles, or its reset timer fires
Settle(r) ==
    \/ \E i \in 1..MaxFiles : PreviewLoaded(r, i) \/ PreviewFailed(r, i)
    \/ \E i \in 1..MaxFiles : ImgError(r, i) \/ ImgLoadNoContext(r, i) \/ ImgLoad(r, i)
    \/ \E i \in 1..MaxFiles : BlobMissing(r, i) \/ BlobCreated(r, i)
    \/ \E i \in 1..MaxFiles :
          \/ \E tags \in ServerResponses(i) : UploadResolved(r, i, tags)
          \/ \E e \in Rejections : UploadRejected(r, i, e)
    \/ ResetTimer(r)

\* while a run has an event outstanding, one of them is eventually delivered
Fairness == \A r \in Slots : WF_vars(Settle(r))

FairSpec == Init /\ [][Next]_vars /\ Fairness

(***************************************************************************)
(* The caller's callback: the handlers' forEach (lines 209-211, 245-247),  *)
(* removePreview and clearAll (lines 253-263), with an upload collaborator *)
(* that can also answer with a url tag whose value is the empty string.    *)
(***************************************************************************)
\* the arguments the handler that started the run gave imgCallbackOnUpload:
\* each entry of what uploadImages returned that is not null
RECURSIVE NotNull(_)
NotNull(urls) ==
    IF urls = <<>> THEN <<>>
    ELSE IF urls[1] # Absent THEN <<urls[1]>> \o NotNull(Tail(urls))
    ELSE NotNull(Tail(urls))

CallbackCalls(run) == NotNull(run.result)

\* what removePreview and clearAll give imgCallbackOnUpload
RemovalSignal == ""

\* removePreview(index): the preview at the index is dropped, and the
\* callback gets the removal signal
RemovePreview(index) ==
    /\ index \in 1..Len(previews)
    /\ previews' = [k \in 1..(Len(previews) - 1) |->
                       IF k < index THEN previews[k] ELSE previews[k + 1]]
    /\ UNCHANGED <<progress, loading, showFailureModal, failureText, isLoggedIn,
                   runs, raw, resolved>>

\* clearAll: the button is rendered while there are previews
ClearAll ==
    /\ Len(previews) > 0
    /\ previews' = <<>>
    /\ UNCHANGED <<progress, loading, showFailureModal, failureText, isLoggedIn,
                   runs, raw, resolved>>

\* what the upload of the i-th file resolves with here: tags with a url tag,
\* and a url tag whose second element is the empty string
CallbackResponses(i) ==
    { JsArr(<<JsArr(<<"url", UrlFor(i)>>), JsArr(<<"size", "100">>)>>),
      JsArr(<<JsArr(<<"url", "">>)>>) }

InitCallback == Init /\ isLoggedIn

NextCallback ==
    \/ \E files \in Batches : HandleChange(files)
    \/ \E files \in Batches : HandleDrop(files)
    \/ \E r \in Slots, i \in 1..MaxFiles : PreviewLoaded(r, i)
    \/ \E r \in Slots, i \in 1..MaxFiles : PreviewFailed(r, i)
    \/ \E r \in Slots, i \in 1..MaxFiles : ImgError(r, i)
    \/ \E r \in Slots, i \in 1..MaxFiles : ImgLoadNoContext(r, i)
    \/ \E r \in Slots, i \in 1..MaxFiles : ImgLoad(r, i)
    \/ \E r \in Slots, i \in 1..MaxFiles : BlobMissing(r, i)
    \/ \E r \in Slots, i \in 1..MaxFiles : BlobCreated(r, i)
    \/ \E r \in Slots, i \in 1..MaxFiles :
          \E tags \in CallbackResponses(i) : UploadResolved(r, i, tags)
    \/ \E r \in Slots, i \in 1..MaxFiles, e \in Rejections : UploadRejected(r, i, e)
    \/ \E r \in Slots : ResetTimer(r)
    \/ CloseFailureModal
    \/ \E index \in 1..MaxFiles : RemovePreview(index)
    \/ ClearAll

SpecCallback == InitCallback /\ [][NextCallback]_vars

(***************************************************************************)
(* The resolver alone: one raw response is drawn and resolved.             *)
(***************************************************************************)
Unresolved == "<unresolved>"

\* what an entry of a raw response can be
RawEntries ==
    { JsNull, JsStr("url"), JsArr(<<>>), JsArr(<<"url">>),
      JsArr(<<"url", "https://x/1.png">>), JsArr(<<"url", "https://x/2.png", "extra">>),
      JsArr(<<"size", "100">>) }

\* the raw responses: arrays of at most MaxTags entries, and values that are no array
RawResponses ==
    { JsNull, JsUndefined, JsStr("error") }
    \cup { JsArr(a) : a \in UNION { [1..n -> RawEntries] : n \in 0..MaxTags } }

InitResolver ==
    /\ progress = ProgressNull
    /\ loading = FALSE
    /\ showFailureModal = FALSE
    /\ failureText = ""
    /\ previews = <<>>
    /\ isLoggedIn = TRUE
    /\ runs = [r \in Slots |-> NoRun]
    /\ raw \in RawResponses
    /\ resolved = Unresolved

ResolveRaw ==
    /\ resolved = Unresolved
    /\ resolved' = IF ResolverThrows(<<raw>>) THEN TypeError ELSE Resolve(raw)
    /\ UNCHANGED <<progress, loading, showFailureModal, failureText, previews, isLoggedIn, runs, raw>>

NextResolver == ResolveRaw

SpecResolver == InitResolver /\ [][NextResolver]_vars

(***************************************************************************)
(* Properties.                                                             *)
(***************************************************************************)
Range(seq) == {seq[k] : k \in 1..Len(seq)}

Active(run) == run.pc \in {"preview", "sanitize", "upload"}

\* the run passed validation and its previews
Working(run) == run.stage \in {"sanitize", "upload", "finalize"}

\* C1: within a run, from setProgress(0) to the run's terminal reset, no
\* progress write of the run stores less than the run's previous write, the
\* writes of the sanitize stage are in 0..30 and those of the upload stage
\* in 30..100.
C1_ProgressMonotone ==
    [][\A r \in Slots :
          (Active(runs[r]) /\ runs'[r].lastProgress # ProgressNull)
          => /\ runs'[r].lastProgress >= runs[r].lastProgress
             /\ runs[r].pc = "sanitize" => runs'[r].lastProgress \in 0..30
             /\ runs[r].pc = "upload" => runs'[r].lastProgress \in 30..100]_vars

\* C2: in an authenticated run over a valid batch whose operations have all
\* settled, every file that was stripped was also uploaded, and the URL of
\* every upload that resolved with a url tag is in the result, whatever
\* happened to the other files.
C2_SiblingsIsolated ==
    \A r \in Slots :
        (isLoggedIn /\ runs[r].pc = "done" /\ Working(runs[r]) /\ ~PendingOps(runs[r]))
        => \A j \in 1..N(runs[r]) :
              runs[r].strip[j] = "resolved"
              => /\ runs[r].upload[j] # "none"
                 /\ (runs[r].upload[j] = "resolved" /\ Resolve(runs[r].responses[j]) # Absent)
                    => Resolve(runs[r].responses[j]) \in Range(runs[r].result)

\* C3: a run has started an upload only if every sanitize operation of the
\* run has resolved: none is unsettled and none has rejected.
C3_SanitizeBarrier ==
    \A r \in Slots :
        (\E i \in 1..N(runs[r]) : runs[r].upload[i] # "none")
        => \A j \in 1..N(runs[r]) : runs[r].strip[j] = "resolved"

\* C3 witness: the uploads of a batch of two files have started
C3_Witness ==
    \E r \in Slots :
        /\ N(runs[r]) = 2
        /\ runs[r].pc = "upload"
        /\ runs[r].upload = <<"pending", "pending">>

\* C4: once a run has ended in the catch block because an operation
\* rejected, and no other run exists, its result is empty, the failure text it
\* set is the rejection's message or the fallback, and progress is the sentinel.
C4_FailureKeepsProgressReset ==
    \A r \in Slots :
        ( /\ runs[r].outcome = "caught"
          /\ runs[r].stage \in {"preview", "sanitize", "upload"}
          /\ \A q \in Slots \ {r} : runs[q].pc = "idle" )
        => /\ runs[r].result = <<>>
           /\ runs[r].text \in {GenericMessage, LoadMessage, ContextMessage,
                                BlobMessage, "upload failed"}
           /\ progress = ProgressNull

\* the types the validator accepts, as the specification lists them
AcceptedTypes == {Mime("image", "jpeg"), Mime("image", "png"), Mime("image", "webp")}

HasForeignType(files) == \E i \in 1..Len(files) : files[i].type \notin AcceptedTypes

HasOversize(files) == \E i \in 1..Len(files) : files[i].size > 5242880

NoWork(run) ==
    /\ \A i \in 1..N(run) : run.preview[i] = "none"
    /\ \A i \in 1..N(run) : run.strip[i] = "none"
    /\ \A i \in 1..N(run) : run.upload[i] = "none"
    /\ run.lastProgress = ProgressNull

Rejected(run) ==
    /\ run.pc = "done"
    /\ run.stage = "validate"
    /\ run.result = <<>>
    /\ run.notices = 1

\* C5: a run over a batch with a file whose type is none of image/jpeg,
\* image/png, image/webp has ended with an empty result and one failure
\* notice, and has built no preview, started no sanitize operation and no
\* upload, and written no progress value.
C5_TypeRejectsBatch ==
    \A r \in Slots :
        (runs[r].pc # "idle" /\ HasForeignType(runs[r].files))
        => Rejected(runs[r]) /\ NoWork(runs[r])

\* C5 witness: a batch of a valid file and a file of a foreign type was refused
C5_Witness ==
    \E r \in Slots :
        /\ N(runs[r]) = 2
        /\ runs[r].files[1].type \in AcceptedTypes
        /\ runs[r].files[1].size <= 5242880
        /\ runs[r].files[2].type \notin AcceptedTypes
        /\ runs[r].pc = "done"

\* C6: a run over a batch with a file larger than 5,242,880 bytes is
\* refused with no work done, whatever the types; a batch of accepted types
\* with every size at most 5,242,880 passes validation; and when only the size
\* is violated the failure text is the size message.
C6_SizeRejectsBatch ==
    \A r \in Slots :
        runs[r].pc # "idle"
        => /\ HasOversize(runs[r].files) => Rejected(runs[r]) /\ NoWork(runs[r])
           /\ (~HasOversize(runs[r].files) /\ ~HasForeignType(runs[r].files))
              => runs[r].stage # "validate"
           /\ (HasOversize(runs[r].files) /\ ~HasForeignType(runs[r].files))
              => runs[r].text = SizeMessage

\* C6 witness: a batch of a file of exactly the maximum size and an oversize
\* file of an accepted type was refused with the size message
C6_Witness ==
    \E r \in Slots :
        /\ N(runs[r]) = 2
        /\ runs[r].files[1].size = 5242880
        /\ runs[r].files[2].size = 5242881
        /\ ~HasForeignType(runs[r].files)
        /\ runs[r].text = SizeMessage

\* C7: for a caller who is not logged in no upload is ever started, no run is
\* in the upload stage, and a run that got through the sanitize stage has
\* ended with every file stripped and an empty result.
C7_NoUploadUnauthenticated ==
    ~isLoggedIn
    => \A r \in Slots :
          /\ \A i \in 1..N(runs[r]) : runs[r].upload[i] = "none"
          /\ runs[r].pc # "upload"
          /\ (runs[r].pc # "idle" /\ AllStripped(runs[r]))
             => /\ runs[r].pc = "done"
                /\ runs[r].stage = "finalize"
                /\ runs[r].result = <<>>

\* C7 witness: an unauthenticated run over two files ended after stripping both
C7_Witness ==
    /\ ~isLoggedIn
    /\ \E r \in Slots :
          /\ N(runs[r]) = 2
          /\ runs[r].strip = <<"resolved", "resolved">>
          /\ runs[r].pc = "done"

\* a raw response holds a url tag of length at least 2
HasUrlTag(response) ==
    /\ IsArray(response)
    /\ \E k \in 1..Len(response.a) :
          /\ IsArray(response.a[k])
          /\ Len(response.a[k].a) >= 2
          /\ response.a[k].a[1] = "url"

\* C8: an authenticated run in which every file was stripped and every
\* upload resolved with a response holding a url tag of length at least 2
\* returns exactly one URL per file, the URL of that file's response.
C8_EveryUrlReturned ==
    \A r \in Slots :
        ( /\ isLoggedIn
          /\ runs[r].pc = "done"
          /\ runs[r].stage = "finalize"
          /\ \A j \in 1..N(runs[r]) : HasUrlTag(runs[r].responses[j]) )
        => /\ Len(runs[r].result) = N(runs[r])
           /\ \A j \in 1..N(runs[r]) : UrlFor(j) \in Range(runs[r].result)

\* C9: a run has set the failure notice at most once; a run that has ended
\* has set it exactly once if its result is empty and not at all otherwise; a
\* run that has not ended has not set it.
C9_OneNoticePerRun ==
    \A r \in Slots :
        /\ runs[r].notices <= 1
        /\ runs[r].pc = "done" => (runs[r].notices = 1 <=> runs[r].result = <<>>)
        /\ runs[r].pc # "done" => runs[r].notices = 0

\* C9 witness: every upload of an authenticated run resolved, none with a url
\* the resolver accepts, and the run gave its one notice
C9_Witness ==
    /\ isLoggedIn
    /\ \E r \in Slots :
          /\ N(runs[r]) = 2
          /\ runs[r].outcome = "empty"
          /\ runs[r].notices = 1
          /\ runs[r].text = NoUrlMessage

\* the resolver of the specification: the value of the first entry that is a
\* url tag of length at least 2
FirstFullUrlTag(entries) ==
    LET full(k) == /\ IsArray(entries[k])
                   /\ Len(entries[k].a) >= 2
                   /\ entries[k].a[1] = "url"
    IN  IF \E k \in 1..Len(entries) : full(k)
        THEN entries[CHOOSE k \in 1..Len(entries) :
                        full(k) /\ \A j \in 1..(k - 1) : ~full(j)].a[2]
        ELSE Absent

\* C10: for an array-shaped raw response the resolver returns the second
\* element of the first tag that is a url tag of length at least 2, and
\* absence exactly when there is no such tag.
C10_FirstFullUrlTagWins ==
    (resolved # Unresolved /\ IsArray(raw)) => resolved = FirstFullUrlTag(raw.a)

\* the response of file j in the shapes of ServerResponses
WellFormed(j) == JsArr(<<JsArr(<<"url", UrlFor(j)>>), JsArr(<<"size", "100">>)>>)

\* C11: when every upload of an authenticated run has resolved, whatever the
\* shapes of the responses, the run has not ended in the catch block, the
\* result holds the URL of every file whose response is well formed, and it
\* holds no URL for a response that is no array or whose first url tag has no
\* value.
C11_ResolverNeverFails ==
    \A r \in Slots :
        (isLoggedIn /\ runs[r].pc = "done" /\ N(runs[r]) > 0 /\ AllUploaded(runs[r]))
        => /\ runs[r].stage = "finalize"
           /\ runs[r].outcome \in {"urls", "empty"}
           /\ \A j \in 1..N(runs[r]) :
                 UrlFor(j) \in Range(runs[r].result) <=> runs[r].responses[j] = WellFormed(j)

\* C11 witness: of two responses the first holds an entry that is no tag and a
\* url tag with no value, the second is well formed, and its URL is the result
C11_Witness ==
    \E r \in Slots :
        /\ N(runs[r]) = 2
        /\ runs[r].pc = "done"
        /\ AllUploaded(runs[r])
        /\ runs[r].responses[1] = JsArr(<<JsNull, JsArr(<<"url">>), JsArr(<<"url", UrlFor(1)>>)>>)
        /\ runs[r].responses[2] = WellFormed(2)
        /\ runs[r].result = <<UrlFor(2)>>

\* how many operations of a stage are in state v
Count(seq, v) == Cardinality({k \in 1..Len(seq) : seq[k] = v})

\* C12: in a run over N files, the progress the run writes when the k-th
\* sanitize operation completes is round(k/N*30), and when the k-th upload
\* completes it is 30 + round(k/N*70), whichever file the operation is of.
C12_CompletionOrder ==
    [][\A r \in Slots :
          /\ ( /\ runs[r].pc = "sanitize"
               /\ runs'[r].files = runs[r].files
               /\ Count(runs'[r].strip, "resolved") = Count(runs[r].strip, "resolved") + 1 )
             => runs'[r].lastProgress
                   = Round(30 * Count(runs'[r].strip, "resolved"), N(runs[r]))
          /\ ( /\ runs[r].pc = "upload"
               /\ runs'[r].files = runs[r].files
               /\ Count(runs'[r].upload, "resolved") = Count(runs[r].upload, "resolved") + 1 )
             => runs'[r].lastProgress
                   = 30 + Round(70 * Count(runs'[r].upload, "resolved"), N(runs[r]))]_vars

\* C13: the progress of a run is 0 when its sanitize stage is entered, is not
\* 30 while a sanitize operation of a batch of several files is pending, is 30
\* when the sanitize barrier has passed, and is 100 when every upload of an
\* authenticated run has completed.
C13_StageBoundaries ==
    \A r \in Slots :
        /\ (runs[r].pc = "sanitize" /\ Count(runs[r].strip, "loading") = N(runs[r]))
           => runs[r].lastProgress = 0
        /\ (runs[r].pc = "sanitize" /\ N(runs[r]) > 1)
           => runs[r].lastProgress # 30
        /\ (runs[r].pc = "upload" /\ Count(runs[r].upload, "pending") = N(runs[r]))
           => runs[r].lastProgress = 30
        /\ ( /\ isLoggedIn
             /\ runs[r].pc = "done"
             /\ runs[r].stage = "finalize"
             /\ runs[r].timer )
           => runs[r].lastProgress = 100

\* C14: a run of a valid batch whose previews have all settled, one of them
\* with a reader error, has entered the sanitize stage.
C14_PreviewFailureDoesNotBlock ==
    \A r \in Slots :
        ( /\ N(runs[r]) > 0
          /\ Count(runs[r].preview, "pending") = 0
          /\ Count(runs[r].preview, "error") > 0 )
        => Working(runs[r])

\* C15: no run gives the caller's callback the empty string, which is the
\* removal signal of removePreview and clearAll: the arguments a run's handler
\* passes are the URLs of its result, and none of them is empty.
C15_EmptyStringOnlyOnRemoval ==
    \A r \in Slots :
        /\ CallbackCalls(runs[r]) = runs[r].result
        /\ RemovalSignal \notin Range(CallbackCalls(runs[r]))

\* C16: while two runs overlap, a step of one run (a progress write or a
\* failure reset) leaves the progress shown for the other run as it was.
C16_RunsOwnTheirProgress ==
    [][\A r \in Slots : \A q \in Slots \ {r} :
          ( /\ Active(runs[r])
            /\ runs'[r] = runs[r]
            /\ Active(runs[q])
            /\ runs'[q] # runs[q] )
          => progress' = progress]_vars

\* C17: the object URL of a sanitize operation is revoked at most once, and
\* it has been revoked once the operation has settled, with a file or with
\* any of its three errors.
C17_ObjectUrlRevoked ==
    \A r \in Slots : \A i \in 1..Len(runs[r].strip) :
        /\ runs[r].revoked[i] <= 1
        /\ runs[r].strip[i] \in {"resolved", "rejected"} => runs[r].revoked[i] = 1

\* C17 witness: in one run an operation failed to encode and another
\* succeeded, and each revoked its object URL
C17_Witness ==
    \E r \in Slots :
        /\ runs[r].strip = <<"rejected", "resolved">>
        /\ runs[r].text = BlobMessage
        /\ runs[r].revoked = <<1, 1>>

\* C18: when the 500 ms reset timer of a run that has ended fires while
\* another run is active, the progress is not set to the sentinel.
C18_TimerSparesLaterRun ==
    [][\A q \in Slots :
          ( /\ runs[q].timer
            /\ runs' = [runs EXCEPT ![q].timer = FALSE, ![q].lastProgress = ProgressNull]
            /\ \E r \in Slots \ {q} : Active(runs[r]) )
          => progress' # ProgressNull]_vars

\* C19: loading is true whenever a run is in progress, and at most one run
\* is in progress at a time.
C19_LoadingReflectsActivity ==
    /\ (\E r \in Slots : Active(runs[r])) => loading
    /\ Cardinality({r \in Slots : Active(runs[r])}) <= 1

\* C20: a run that passed validation eventually ends with a list, the URLs
\* or an empty one, at which point loading is false; and eventually the run
\* has ended, its reset timer is no longer pending and progress is the
\* sentinel.
C20_EveryRunTerminates ==
    \A r \in Slots :
        /\ Active(runs[r]) ~> ( /\ runs[r].pc = "done"
                                /\ runs[r].outcome \in {"urls", "empty", "caught"}
                                /\ runs[r].outcome # "urls" => runs[r].result = <<>>
                                /\ ~loading )
        /\ Active(runs[r]) ~> ( /\ ~Active(runs[r])
                                /\ ~runs[r].timer
                                /\ progress = ProgressNull )

\* C20 witness: a run over two files has returned two URLs, loading is false,
\* the timer has fired and progress is the sentinel
C20_Witness ==
    \E r \in Slots :
        /\ runs[r].pc = "done"
        /\ runs[r].outcome = "urls"
        /\ Len(runs[r].result) = 2
        /\ ~runs[r].timer
        /\ ~loading
        /\ progress = ProgressNull

====
